---- MODULE Spec2Model ----
(***************************************************************************)
(* Model of src/main.py: the 2024 Worlds statistics dashboard.             *)
(*                                                                         *)
(* The script is executed top to bottom by the hosting framework on every  *)
(* interaction.  One run is modelled as the steps                          *)
(*   load -> filters -> tab1 -> tab2 -> tab3 -> tab4 -> tab5 -> done       *)
(* with the two ways a run ends early: st.stop() ("stopped") and an        *)
(* exception nobody catches ("crashed").                                   *)
(*                                                                         *)
(* A table (DataFrame) is a record [columns, rows]: rows is a sequence of  *)
(* functions from column name to value.  Text is a sequence of one-letter  *)
(* strings, so that split and strip are computed letter by letter.         *)
(* Numbers with one decimal (rates, means) are kept in tenths.             *)
(* Derived tables are kept as sets of rows: their display order is not     *)
(* represented.                                                            *)
(***************************************************************************)
EXTENDS Integers, Sequences, FiniteSets, TLC

VARIABLES
    fileExists,        \* os.path.exists(file_path)
    workbook,          \* the spreadsheet: [columns, sheets]
    cache,             \* st.cache_data memo of load_data: <<>> or <<result>>
    pc,                \* position of the running script
    df,                \* the loaded table
    messages,          \* st.error / st.warning / st.info shown in this run
    stage_filter,      \* value of the "Select Stage" multiselect
    team_filter,       \* value of the "Select Team" selectbox
    filtered_df,
    filtered_team_df,
    player_stats,      \* tab1
    merged,            \* tab2
    match_summary,     \* tab3
    match_winners,     \* tab4
    df_with_win,       \* tab4
    champ_wr,          \* tab4
    team_wr,           \* tab4
    team_stats,        \* tab5
    rendered,          \* the views that were drawn in this run
    exception,         \* the uncaught exception that ended the run, or "none"
    interactive        \* FALSE on the first page load, TRUE on a rerun

vars == <<fileExists, workbook, cache, pc, df, messages, stage_filter, team_filter,
          filtered_df, filtered_team_df, player_stats, merged, match_summary,
          match_winners, df_with_win, champ_wr, team_wr, team_stats, rendered,
          exception, interactive>>

----------------------------------------------------------------------------
(* Bounds of the input families *)

MaxSheetRows == 2      \* rows per sheet, load family
MaxRows == 2           \* rows of the workbook, column family
MaxWinRows == 3        \* rows of the workbook, win-determination family
MaxRateRows == 4       \* rows of the workbook, win-rate family
MaxPickRows == 2       \* rows of the workbook, pick/ban family
MaxBanLen == 4         \* letters of a Banned Champions text, parsing family

----------------------------------------------------------------------------
(* Program constants *)

sheets_to_load == <<"Quarterfinals", "Semifinals", "Finals">>

AllColumns ==
    {"Team", "Player IGN", "Player Real Name", "Champion", "Kills", "Deaths",
     "Assists", "CS", "Gold", "CS/Min", "GPM", "Duration (min)", "Match No",
     "Banned Champions"}

\* Team names in the order string comparison gives them ("BLG" < "T1").
TeamsSorted == <<"BLG", "T1">>

Teams == {TeamsSorted[i] : i \in 1..Len(TeamsSorted)}

TeamRank(t) == CHOOSE i \in 1..Len(TeamsSorted) : TeamsSorted[i] = t

\* A missing cell.
NaN == <<"NaN">>

EmptyDataFrame == [columns |-> {}, rows |-> <<>>]

----------------------------------------------------------------------------
(* Helpers on sequences and tables *)

Range(s) == {s[i] : i \in 1..Len(s)}

RECURSIVE SumCol(_, _, _)
SumCol(rows, I, col) ==
    IF I = {} THEN 0
    ELSE LET i == CHOOSE x \in I : TRUE
         IN rows[i][col] + SumCol(rows, I \ {i}, col)

\* Series.unique(): the distinct values in order of first appearance.
RECURSIVE Unique(_, _)
Unique(rows, col) ==
    IF rows = <<>> THEN <<>>
    ELSE LET n == Len(rows)
             front == Unique(SubSeq(rows, 1, n - 1), col)
         IN IF rows[n][col] \in Range(front) THEN front
            ELSE Append(front, rows[n][col])

\* Boolean-mask selection df[df[col].isin(values)]: the rows whose cell is one of
\* the values, in order.
SelectIn(table, col, values) ==
    [columns |-> table.columns,
     rows |-> SelectSeq(table.rows, LAMBDA r : r[col] \in values)]

\* numpy round: to the nearest integer, halves to the even neighbour.
RoundDiv(num, den) ==
    LET q == num \div den
        r == num % den
    IN IF 2 * r < den THEN q
       ELSE IF 2 * r > den THEN q + 1
       ELSE IF q % 2 = 0 THEN q ELSE q + 1

----------------------------------------------------------------------------
(* load_data, lines 31-60 *)

RECURSIVE Split(_)
\* x.split(","): the pieces between commas, empty pieces included.
Split(x) ==
    IF \A i \in 1..Len(x) : x[i] # "," THEN <<x>>
    ELSE LET k == CHOOSE i \in 1..Len(x) :
                      x[i] = "," /\ \A j \in 1..(i - 1) : x[j] # ","
         IN <<SubSeq(x, 1, k - 1)>> \o Split(SubSeq(x, k + 1, Len(x)))

RECURSIVE LStrip(_)
LStrip(s) == IF s # <<>> /\ Head(s) = " " THEN LStrip(Tail(s)) ELSE s

RECURSIVE RStrip(_)
RStrip(s) ==
    IF s # <<>> /\ s[Len(s)] = " " THEN RStrip(SubSeq(s, 1, Len(s) - 1)) ELSE s

\* Variant: lstrip() instead of strip().
StripLeftOnly(s) == LStrip(s)

\* str.strip()
Strip(s) == RStrip(LStrip(s))

\* fillna(""), line 52
FillNaText(x) == IF x = NaN THEN <<>> ELSE x

\* [champ.strip() for champ in x.split(",") if champ.strip()], line 53
ParseBans(x) ==
    LET parts == Split(x)
        stripped == [i \in 1..Len(parts) |-> Strip(parts[i])]
    IN SelectSeq(stripped, LAMBDA champ : champ # <<>>)

\* pd.read_excel(file_path, sheet_name=[...]), line 40: the library raises when a
\* requested sheet is not in the file; otherwise it gives the requested sheets.
ReadExcel(book, names) ==
    IF \E i \in 1..Len(names) : names[i] \notin DOMAIN book.sheets
    THEN [raised |-> TRUE, xl |-> <<>>]
    ELSE [raised |-> FALSE,
          xl |-> [s \in Range(names) |-> book.sheets[s]]]

\* Variant: every sheet tagged with the first stage name.
TagFirstStage(rows, stage) ==
    [i \in 1..Len(rows) |->
        [c \in DOMAIN rows[i] \cup {"Stage"} |->
            IF c = "Stage" THEN "Quarterfinals" ELSE rows[i][c]]]

\* temp = xl[stage].copy(); temp["Stage"] = stage, lines 44-45
TagStage(rows, stage) ==
    [i \in 1..Len(rows) |->
        [c \in DOMAIN rows[i] \cup {"Stage"} |->
            IF c = "Stage" THEN stage ELSE rows[i][c]]]

\* The for loop of lines 42-48 followed by pd.concat, line 49.
RECURSIVE ConcatStages(_, _, _)
ConcatStages(xl, names, k) ==
    IF k > Len(names) THEN <<>>
    ELSE (IF names[k] \in DOMAIN xl THEN TagStage(xl[names[k]], names[k]) ELSE <<>>)
         \o ConcatStages(xl, names, k + 1)

SheetWarnings(xl, names) ==
    {<<"warning", "Sheet not found", names[i]>> :
        i \in {j \in 1..Len(names) : names[j] \notin DOMAIN xl}}

\* Lines 51-56: the ban text of every row becomes a list.
ProcessBans(rows) ==
    [i \in 1..Len(rows) |->
        [rows[i] EXCEPT !["Banned Champions"] = ParseBans(FillNaText(@))]]

\* The body of load_data: [data, msgs].
load_data ==
    IF ~fileExists
    THEN [data |-> EmptyDataFrame,
          msgs |-> {<<"error", "Excel file not found", "">>}]
    ELSE LET got == ReadExcel(workbook, sheets_to_load)
             present == {i \in 1..Len(sheets_to_load) :
                            sheets_to_load[i] \in DOMAIN got.xl}
         IN IF got.raised \/ present = {}
            THEN \* except Exception, lines 58-60 (pd.concat of no frames raises too)
                 [data |-> EmptyDataFrame,
                  msgs |-> {<<"error", "Error loading data", "">>}]
            ELSE LET rows == ConcatStages(got.xl, sheets_to_load, 1)
                     cols == workbook.columns \cup {"Stage"}
                     warns == SheetWarnings(got.xl, sheets_to_load)
                 IN IF "Banned Champions" \in cols
                    THEN [data |-> [columns |-> cols, rows |-> ProcessBans(rows)],
                          msgs |-> warns]
                    ELSE [data |-> [columns |-> cols, rows |-> rows],
                          msgs |-> warns \cup
                              {<<"warning", "Column not found", "Banned Champions">>}]

----------------------------------------------------------------------------
(* Grouping helpers *)

\* Sort order of the stage names as strings.
StagesSorted == <<"Finals", "Quarterfinals", "Semifinals">>

StageRank(s) == CHOOSE i \in 1..Len(StagesSorted) : StagesSorted[i] = s

\* Indices of the rows of one (Stage, Match No) group / one (Stage, Match No, Team) group.
MatchRows(rows, stage, no) ==
    {i \in 1..Len(rows) : rows[i]["Stage"] = stage /\ rows[i]["Match No"] = no}

MatchTeamRows(rows, stage, no, team) ==
    {i \in MatchRows(rows, stage, no) : rows[i]["Team"] = team}

\* Lexicographic order of the group keys <<Stage, Match No, Team>>: groupby sorts them.
KeyLess(a, b) ==
    \/ StageRank(a[1]) < StageRank(b[1])
    \/ a[1] = b[1] /\ a[2] < b[2]
    \/ a[1] = b[1] /\ a[2] = b[2] /\ TeamRank(a[3]) < TeamRank(b[3])

RECURSIVE SortKeys(_)
SortKeys(S) ==
    IF S = {} THEN <<>>
    ELSE LET least == CHOOSE k \in S : \A o \in S \ {k} : KeyLess(k, o)
         IN <<least>> \o SortKeys(S \ {least})

----------------------------------------------------------------------------
(* tab2: pick/ban, lines 190-196 *)

\* df["Champion"].value_counts(): one row per distinct value, missing values dropped.
all_champs(rows) ==
    {[Champion |-> c,
      Count |-> Cardinality({i \in 1..Len(rows) : rows[i]["Champion"] = c})] :
        c \in {rows[i]["Champion"] : i \in 1..Len(rows)} \ {NaN}}

\* Occurrences of c in one ban list.
Occurrences(list, c) == Cardinality({k \in 1..Len(list) : list[k] = c})

RECURSIVE SumOccurrences(_, _, _)
SumOccurrences(rows, I, c) ==
    IF I = {} THEN 0
    ELSE LET i == CHOOSE x \in I : TRUE
         IN Occurrences(rows[i]["Banned Champions"], c)
              + SumOccurrences(rows, I \ {i}, c)

\* df["Banned Champions"].explode().value_counts(): an empty list explodes to a
\* missing value, which value_counts drops.
ban_counts(rows) ==
    {[Champion |-> c, Count |-> SumOccurrences(rows, 1..Len(rows), c)] :
        c \in UNION {Range(rows[i]["Banned Champions"]) : i \in 1..Len(rows)}}

\* Variant: how="left", champions that were only banned are lost.
MergeLeft(picks, bans) ==
    {[Champion |-> p.Champion, PickCount |-> p.Count,
      BanCount |-> IF \E b \in bans : b.Champion = p.Champion
                   THEN (CHOOSE b \in bans : b.Champion = p.Champion).Count
                   ELSE 0] : p \in picks}

\* pd.merge(all_champs, ban_counts, on="Champion", how="outer").fillna(0)
MergeOuter(picks, bans) ==
    {[Champion |-> p.Champion, PickCount |-> p.Count, BanCount |-> b.Count] :
        <<p, b>> \in {pb \in picks \X bans : pb[1].Champion = pb[2].Champion}}
    \cup {[Champion |-> p.Champion, PickCount |-> p.Count, BanCount |-> 0] :
            p \in {q \in picks : \A b \in bans : b.Champion # q.Champion}}
    \cup {[Champion |-> b.Champion, PickCount |-> 0, BanCount |-> b.Count] :
            b \in {q \in bans : \A p \in picks : p.Champion # q.Champion}}

----------------------------------------------------------------------------
(* tab3: match summaries, lines 215-231 *)

MatchKeys(rows) == {<<rows[i]["Stage"], rows[i]["Match No"]>> : i \in 1..Len(rows)}

MatchSummary(rows) ==
    {LET I == MatchRows(rows, k[1], k[2])
         dur == SumCol(rows, I, "Duration (min)")
         n == Cardinality(I)
     IN [Stage |-> k[1], MatchNo |-> k[2],
         Kills |-> SumCol(rows, I, "Kills"),
         Deaths |-> SumCol(rows, I, "Deaths"),
         Assists |-> SumCol(rows, I, "Assists"),
         GoldPerMin |-> RoundDiv(10 * SumCol(rows, I, "Gold") * n, dur),
         CSPerMin |-> RoundDiv(10 * SumCol(rows, I, "CS") * n, dur),
         Duration |-> RoundDiv(10 * dur, n)] :
        k \in MatchKeys(rows)}

----------------------------------------------------------------------------
(* tab4: win rates, lines 242-263 *)

\* df.groupby(["Stage", "Match No", "Team"]).agg({"Gold": "mean"}).reset_index():
\* one row per group in sorted key order; the mean is kept as sum / count.
match_avg_gold(rows) ==
    LET keys == SortKeys({<<rows[i]["Stage"], rows[i]["Match No"], rows[i]["Team"]>> :
                              i \in 1..Len(rows)})
    IN [j \in 1..Len(keys) |->
           LET I == MatchTeamRows(rows, keys[j][1], keys[j][2], keys[j][3])
           IN [Stage |-> keys[j][1], MatchNo |-> keys[j][2], Team |-> keys[j][3],
               GoldSum |-> SumCol(rows, I, "Gold"), GoldCount |-> Cardinality(I)]]

\* Variant: compares the gold totals instead of the means.
MeanLessBySum(a, b) == a.GoldSum < b.GoldSum

\* a's mean gold is smaller than b's.
MeanLess(a, b) == a.GoldSum * b.GoldCount < b.GoldSum * a.GoldCount

\* Variant: the last row of the group holding the greatest mean.
IdxMaxLast(avg, G) ==
    CHOOSE i \in G :
        /\ \A j \in G : ~(avg[i].GoldSum * avg[j].GoldCount < avg[j].GoldSum * avg[i].GoldCount)
        /\ \A j \in G : j > i =>
               avg[j].GoldSum * avg[i].GoldCount < avg[i].GoldSum * avg[j].GoldCount

\* idxmax of one group: the first row of the group holding the greatest mean.
IdxMax(avg, G) ==
    CHOOSE i \in G :
        /\ \A j \in G : ~MeanLess(avg[i], avg[j])
        /\ \A j \in G : j < i => MeanLess(avg[j], avg[i])

\* match_avg_gold.loc[groupby(["Stage", "Match No"])["Gold"].idxmax()], renamed.
MatchWinners(avg) ==
    {LET G == {j \in 1..Len(avg) : avg[j].Stage = avg[i].Stage
                                     /\ avg[j].MatchNo = avg[i].MatchNo}
         w == IdxMax(avg, G)
     IN [Stage |-> avg[w].Stage, MatchNo |-> avg[w].MatchNo,
         WinningTeam |-> avg[w].Team] :
        i \in 1..Len(avg)}

\* pd.merge(df, match_winners, on=["Stage", "Match No"], how="left") for one row,
\* then the Won column.
JoinWinner(row, winners) ==
    LET hits == {w \in winners : w.Stage = row["Stage"] /\ w.MatchNo = row["Match No"]}
    IN IF hits = {}
       THEN {[Stage |-> row["Stage"], MatchNo |-> row["Match No"], Team |-> row["Team"],
              Champion |-> row["Champion"], WinningTeam |-> "", Won |-> FALSE]}
       ELSE {[Stage |-> row["Stage"], MatchNo |-> row["Match No"], Team |-> row["Team"],
              Champion |-> row["Champion"], WinningTeam |-> w.WinningTeam,
              Won |-> (row["Team"] = w.WinningTeam)] : w \in hits}

RECURSIVE SetToSeq(_)
SetToSeq(S) ==
    IF S = {} THEN <<>>
    ELSE LET x == CHOOSE y \in S : TRUE IN <<x>> \o SetToSeq(S \ {x})

RECURSIVE DfWithWin(_, _)
DfWithWin(rows, winners) ==
    IF rows = <<>> THEN <<>>
    ELSE SetToSeq(JoinWinner(Head(rows), winners)) \o DfWithWin(Tail(rows), winners)

\* groupby(col).size(), of all rows or (wonOnly) of the rows with Won; missing
\* keys are dropped.
GroupSize(rows, col, wonOnly) ==
    LET kept == {i \in 1..Len(rows) : wonOnly => rows[i].Won}
    IN {[Key |-> k, Size |-> Cardinality({i \in kept : rows[i][col] = k})] :
           k \in {rows[i][col] : i \in kept} \ {NaN}}

\* Variant: the rate cut off after one decimal instead of rounded.
WinRateTruncated(wins, games) == (wins * 1000) \div games

\* (Wins / Games * 100).round(1), in tenths of a percent.
WinRate(wins, games) == RoundDiv(wins * 1000, games)

\* pd.merge(total, wins, how="left").fillna(0) and the Win Rate (%) column.
WinRateTable(rows, col) ==
    LET wins == GroupSize(rows, col, TRUE)
        total == GroupSize(rows, col, FALSE)
    IN {LET hit == {w \in wins : w.Key = t.Key}
            won == IF hit = {} THEN 0 ELSE (CHOOSE w \in hit : TRUE).Size
        IN [Key |-> t.Key, Games |-> t.Size, Wins |-> won,
            Rate |-> WinRate(won, t.Size)] :
          t \in total}

----------------------------------------------------------------------------
(* tab5: team statistics, lines 276-291 *)

\* mean(...).round(1), in tenths.
Mean1(total, n) == RoundDiv(10 * total, n)

\* The table the team view aggregates (line 276).
TeamStatsInput == df

TeamStats(rows) ==
    {LET I == {i \in 1..Len(rows) : rows[i]["Team"] = t}
         n == Cardinality(I)
     IN [Team |-> t,
         Kills_sum |-> SumCol(rows, I, "Kills"),
         Kills_mean |-> Mean1(SumCol(rows, I, "Kills"), n),
         Deaths_sum |-> SumCol(rows, I, "Deaths"),
         Deaths_mean |-> Mean1(SumCol(rows, I, "Deaths"), n),
         Assists_sum |-> SumCol(rows, I, "Assists"),
         Assists_mean |-> Mean1(SumCol(rows, I, "Assists"), n),
         Gold_sum |-> SumCol(rows, I, "Gold"),
         Gold_mean |-> Mean1(SumCol(rows, I, "Gold"), n),
         CS_sum |-> SumCol(rows, I, "CS"),
         CS_mean |-> Mean1(SumCol(rows, I, "CS"), n),
         CSMin_mean |-> RoundDiv(SumCol(rows, I, "CS/Min"), n),
         GPM_mean |-> RoundDiv(SumCol(rows, I, "GPM"), n)] :
        t \in {rows[i]["Team"] : i \in 1..Len(rows)}}

----------------------------------------------------------------------------
(* The script, one step per block *)

NoTable == {}

Outputs == <<player_stats, merged, match_summary, match_winners, df_with_win,
             champ_wr, team_wr, team_stats>>

Inputs == <<fileExists, workbook>>

Filters == <<stage_filter, team_filter, filtered_df, filtered_team_df>>

\* Variant: the empty-data check never fires.
NeverEmpty(table) == FALSE

\* DataFrame.empty: no rows or no columns.
IsEmpty(table) == table.rows = <<>> \/ table.columns = {}

\* Lines 87-92: load_data() through the cache, then the empty-data stop.
Load ==
    /\ pc = "load"
    /\ LET result == IF cache # <<>> THEN cache[1] ELSE load_data
       IN /\ cache' = <<result>>
          /\ df' = result.data
          /\ IF IsEmpty(result.data)
             THEN /\ messages' = result.msgs \cup {<<"error", "Data failed to load", "">>}
                  /\ pc' = "stopped"
             ELSE /\ messages' = result.msgs
                  /\ pc' = "filters"
    /\ UNCHANGED <<Inputs, Filters, Outputs, rendered, exception, interactive>>

\* Lines 94-107: the sidebar widgets and the two filtered tables.  On the first
\* page load the widgets hold their defaults; on a rerun they hold what the user
\* chose.
SelectFilters ==
    /\ pc = "filters"
    /\ LET options == Unique(df.rows, "Stage")
       IN \E chosen \in (IF interactive THEN SUBSET Range(options)
                         ELSE {Range(options)}) :
            /\ stage_filter' = chosen
            /\ IF "Team" \notin df.columns
               THEN /\ messages' = messages \cup {<<"error", "No column", "Team">>}
                    /\ pc' = "stopped"
                    /\ UNCHANGED <<team_filter, filtered_df, filtered_team_df>>
               ELSE LET teams == Unique(df.rows, "Team")
                    IN \E team \in (IF interactive THEN Range(teams) ELSE {teams[1]}) :
                         /\ team_filter' = team
                         /\ filtered_df' =
                                SelectIn(df, "Stage", chosen)
                         /\ filtered_team_df' =
                                SelectIn(SelectIn(df, "Stage", chosen), "Team", {team})
                         /\ pc' = "tab1"
                         /\ UNCHANGED messages
    /\ UNCHANGED <<Inputs, cache, df, Outputs, rendered, exception, interactive>>

\* Columns tab1 indexes without a guard, lines 166-168.
Tab1Columns ==
    {"Stage", "Match No", "Champion", "Kills", "Deaths", "Assists", "CS", "Gold",
     "CS/Min", "GPM"}

\* Lines 127-181: player stats.
Tab1 ==
    /\ pc = "tab1"
    /\ IF "Player IGN" \notin filtered_team_df.columns
       THEN /\ messages' = messages \cup {<<"error", "Column not found", "Player IGN">>}
            /\ pc' = "tab2"
            /\ UNCHANGED <<player_stats, rendered, exception>>
       ELSE LET players == Unique(filtered_team_df.rows, "Player IGN")
            IN IF players = <<>>
               THEN /\ messages' = messages \cup {<<"error", "No player data", "">>}
                    /\ pc' = "tab2"
                    /\ UNCHANGED <<player_stats, rendered, exception>>
               ELSE \E player \in (IF interactive THEN Range(players)
                                   ELSE {players[1]}) :
                      /\ player_stats' =
                             SelectIn(filtered_team_df, "Player IGN", {player}).rows
                      /\ IF Tab1Columns \subseteq filtered_team_df.columns
                         THEN /\ rendered' = rendered \cup {"tab1"}
                              /\ pc' = "tab2"
                              /\ UNCHANGED exception
                         ELSE /\ exception' = "KeyError"
                              /\ pc' = "crashed"
                              /\ UNCHANGED rendered
                      /\ UNCHANGED messages
    /\ UNCHANGED <<Inputs, cache, df, Filters, merged, match_summary, match_winners,
                   df_with_win, champ_wr, team_wr, team_stats, interactive>>

\* Lines 184-205: pick/ban trends.
Tab2 ==
    /\ pc = "tab2"
    /\ IF "Champion" \notin df.columns
       THEN /\ messages' = messages \cup {<<"error", "Column not found", "Champion">>}
            /\ pc' = "tab3"
            /\ UNCHANGED <<merged, rendered, exception>>
       ELSE IF "Banned Champions" \notin df.columns
       THEN /\ exception' = "KeyError"
            /\ pc' = "crashed"
            /\ UNCHANGED <<merged, rendered, messages>>
       ELSE /\ merged' = MergeOuter(all_champs(df.rows), ban_counts(df.rows))
            /\ rendered' = rendered \cup {"tab2"}
            /\ pc' = "tab3"
            /\ UNCHANGED <<messages, exception>>
    /\ UNCHANGED <<Inputs, cache, df, Filters, player_stats, match_summary,
                   match_winners, df_with_win, champ_wr, team_wr, team_stats,
                   interactive>>

necessary_cols ==
    {"Stage", "Match No", "Duration (min)", "Kills", "Deaths", "Assists", "Gold", "CS"}

\* Lines 208-233: match summaries.
Tab3 ==
    /\ pc = "tab3"
    /\ IF ~(necessary_cols \subseteq df.columns)
       THEN /\ messages' = messages \cup {<<"error", "Columns missing", "match summaries">>}
            /\ UNCHANGED <<match_summary, rendered>>
       ELSE /\ match_summary' = MatchSummary(df.rows)
            /\ rendered' = rendered \cup {"tab3"}
            /\ UNCHANGED messages
    /\ pc' = "tab4"
    /\ UNCHANGED <<Inputs, cache, df, Filters, player_stats, merged, match_winners,
                   df_with_win, champ_wr, team_wr, team_stats, exception, interactive>>

\* Lines 236-266: champion and team win rates.
Tab4 ==
    /\ pc = "tab4"
    /\ IF ~({"Team", "Gold", "Champion"} \subseteq df.columns)
       THEN /\ messages' = messages \cup {<<"error", "Columns missing", "win rates">>}
            /\ pc' = "tab5"
            /\ UNCHANGED <<match_winners, df_with_win, champ_wr, team_wr, rendered,
                           exception>>
       ELSE IF "Match No" \notin df.columns
       THEN /\ exception' = "KeyError"
            /\ pc' = "crashed"
            /\ UNCHANGED <<match_winners, df_with_win, champ_wr, team_wr, rendered,
                           messages>>
       ELSE LET winners == MatchWinners(match_avg_gold(df.rows))
                joined == DfWithWin(df.rows, winners)
            IN /\ match_winners' = winners
               /\ df_with_win' = joined
               /\ champ_wr' = WinRateTable(joined, "Champion")
               /\ team_wr' = WinRateTable(joined, "Team")
               /\ rendered' = rendered \cup {"tab4"}
               /\ pc' = "tab5"
               /\ UNCHANGED <<messages, exception>>
    /\ UNCHANGED <<Inputs, cache, df, Filters, player_stats, merged, match_summary,
                   team_stats, interactive>>

stats_cols == {"Team", "Kills", "Deaths", "Assists", "Gold", "CS", "CS/Min", "GPM"}

\* Lines 269-312: all team stats.
Tab5 ==
    /\ pc = "tab5"
    /\ IF ~(stats_cols \subseteq df.columns)
       THEN /\ messages' = messages \cup {<<"error", "Columns missing", "team statistics">>}
            /\ UNCHANGED <<team_stats, rendered>>
       ELSE /\ team_stats' = TeamStats(TeamStatsInput.rows)
            /\ rendered' = rendered \cup {"tab5"}
            /\ UNCHANGED messages
    /\ pc' = "done"
    /\ UNCHANGED <<Inputs, cache, df, Filters, player_stats, merged, match_summary,
                   match_winners, df_with_win, champ_wr, team_wr, exception,
                   interactive>>

\* A widget change: the framework runs the script again from the top.  Nothing of
\* the previous run survives but the cache.
Rerun ==
    /\ pc \in {"done", "stopped", "crashed"}
    /\ pc' = "load"
    /\ interactive' = TRUE
    /\ df' = EmptyDataFrame
    /\ messages' = {}
    /\ stage_filter' = {}
    /\ team_filter' = ""
    /\ filtered_df' = EmptyDataFrame
    /\ filtered_team_df' = EmptyDataFrame
    /\ player_stats' = <<>>
    /\ merged' = NoTable
    /\ match_summary' = NoTable
    /\ match_winners' = NoTable
    /\ df_with_win' = <<>>
    /\ champ_wr' = NoTable
    /\ team_wr' = NoTable
    /\ team_stats' = NoTable
    /\ rendered' = {}
    /\ exception' = "none"
    /\ UNCHANGED <<Inputs, cache>>

Next == Load \/ SelectFilters \/ Tab1 \/ Tab2 \/ Tab3 \/ Tab4 \/ Tab5 \/ Rerun

----------------------------------------------------------------------------
(* Input families.  A workbook is drawn once, before the first run; the families
   differ in which cells vary. *)

SeqsUpTo(S, n) == UNION {[1..k -> S] : k \in 0..n}

\* A well-formed row of a stage sheet.
BaseRow ==
    [c \in AllColumns |->
        CASE c = "Team" -> "BLG"
          [] c = "Player IGN" -> "Bin"
          [] c = "Player Real Name" -> "Chen"
          [] c = "Champion" -> <<"a">>
          [] c = "Banned Champions" -> <<"b">>
          [] c = "Duration (min)" -> 3
          [] c = "CS/Min" -> 85
          [] c = "GPM" -> 4
          [] OTHER -> 1]

With(row, c, v) == [row EXCEPT ![c] = v]

PlayerOf(team, k) ==
    IF team = "BLG" THEN (IF k = 1 THEN "Bin" ELSE "Elk")
    ELSE (IF k = 1 THEN "Faker" ELSE "Zeus")

TeamRow(team, k) == With(With(BaseRow, "Team", team), "Player IGN", PlayerOf(team, k))

\* The workbook holding the rows of `placed` (pairs <<sheet, row>>) in their sheets,
\* with the columns of `missing` absent from every sheet.
Book(placed, missing) ==
    [columns |-> AllColumns \ missing,
     sheets |-> [s \in Range(sheets_to_load) |->
                    LET mine == SelectSeq(placed, LAMBDA e : e[1] = s)
                    IN [i \in 1..Len(mine) |->
                           [c \in AllColumns \ missing |-> mine[i][2][c]]]]]

NoBook == [columns |-> {}, sheets |-> <<>>]

InitRun ==
    /\ cache = <<>>
    /\ pc = "load"
    /\ df = EmptyDataFrame
    /\ messages = {}
    /\ stage_filter = {}
    /\ team_filter = ""
    /\ filtered_df = EmptyDataFrame
    /\ filtered_team_df = EmptyDataFrame
    /\ player_stats = <<>>
    /\ merged = NoTable
    /\ match_summary = NoTable
    /\ match_winners = NoTable
    /\ df_with_win = <<>>
    /\ champ_wr = NoTable
    /\ team_wr = NoTable
    /\ team_stats = NoTable
    /\ rendered = {}
    /\ exception = "none"
    /\ interactive = FALSE

\* Column family: every sheet is there, at most one column is not; rows of two
\* stages, two teams, two players each with their own kill counts.
ColumnRows ==
    {<<s, With(TeamRow(t, k), "Kills", k)>> :
        s \in {"Quarterfinals", "Semifinals"}, t \in Teams, k \in {1, 2}}

Init ==
    /\ fileExists = TRUE
    /\ \E placed \in SeqsUpTo(ColumnRows, MaxRows) :
       \E missing \in {{}} \cup {{c} : c \in AllColumns} :
           workbook = Book(placed, missing)
    /\ InitRun

Spec == Init /\ [][Next]_vars

\* Load family: the file may be absent, any of the sheets may be absent.
LoadRows == {TeamRow(t, 1) : t \in Teams}

InitLoad ==
    /\ fileExists \in BOOLEAN
    /\ IF fileExists
       THEN \E present \in SUBSET Range(sheets_to_load) :
            \E sheets \in [present -> SeqsUpTo(LoadRows, MaxSheetRows)] :
                workbook = [columns |-> AllColumns, sheets |-> sheets]
       ELSE workbook = NoBook
    /\ InitRun

SpecLoad == InitLoad /\ [][Next]_vars

\* Win family: three matches, two teams, gold 1 or 2.
WinRows ==
    {<<m[1], With(With(TeamRow(t, 1), "Match No", m[2]), "Gold", g)>> :
        m \in {<<"Quarterfinals", 1>>, <<"Quarterfinals", 2>>, <<"Semifinals", 1>>},
        t \in Teams, g \in {1, 2}}

InitWin ==
    /\ fileExists = TRUE
    /\ \E placed \in SeqsUpTo(WinRows, MaxWinRows) : workbook = Book(placed, {})
    /\ InitRun

SpecWin == InitWin /\ [][Next]_vars

\* Rate family: one match, two teams, gold 1 or 2, two champions.
RateRows ==
    {<<"Quarterfinals", With(With(TeamRow(t, 1), "Gold", g), "Champion", c)>> :
        t \in Teams, g \in {1, 2}, c \in {<<"a">>, <<"b">>}}

InitRate ==
    /\ fileExists = TRUE
    /\ \E placed \in SeqsUpTo(RateRows, MaxRateRows) : workbook = Book(placed, {})
    /\ InitRun

SpecRate == InitRate /\ [][Next]_vars

\* Pick/ban family: champions a, b or none; ban texts with repeats and blanks.
PickBanTexts ==
    {NaN, <<>>, <<"a">>, <<"c", ",", "a">>, <<"a", ",", " ", "a">>}

PickBanRows ==
    {<<"Quarterfinals", With(With(BaseRow, "Champion", c), "Banned Champions", b)>> :
        c \in {<<"a">>, <<"b">>, NaN}, b \in PickBanTexts}

InitPickBan ==
    /\ fileExists = TRUE
    /\ \E placed \in SeqsUpTo(PickBanRows, MaxPickRows) : workbook = Book(placed, {})
    /\ InitRun

SpecPickBan == InitPickBan /\ [][Next]_vars

\* Parsing family: one row whose ban text is any text over the letters below,
\* a missing cell, or the text "Ahri, Zeri".
Letters == {"a", "b", " ", ","}

AhriZeri == <<"A", "h", "r", "i", ",", " ", "Z", "e", "r", "i">>

ParseTexts == SeqsUpTo(Letters, MaxBanLen) \cup {NaN, AhriZeri}

InitParse ==
    /\ fileExists = TRUE
    /\ \E x \in ParseTexts :
           workbook = Book(<<<<"Quarterfinals", With(BaseRow, "Banned Champions", x)>>>>, {})
    /\ InitRun

SpecParse == InitParse /\ [][Next]_vars

----------------------------------------------------------------------------
(* Claims about load_data *)

\* The result load_data gave (through the cache) once the load step has run.
Loaded == cache[1]

LoadRan == pc # "load" /\ cache # <<>>

LoadError(kind) == <<"error", kind, "">>

SheetLen(s) == IF s \in DOMAIN workbook.sheets THEN Len(workbook.sheets[s]) ELSE 0

\* The sheet a row of the loaded table came from, by position, and its place there.
SourceSheet(i) ==
    IF i <= SheetLen("Quarterfinals") THEN "Quarterfinals"
    ELSE IF i <= SheetLen("Quarterfinals") + SheetLen("Semifinals") THEN "Semifinals"
    ELSE "Finals"

SourceIndex(i) ==
    IF i <= SheetLen("Quarterfinals") THEN i
    ELSE IF i <= SheetLen("Quarterfinals") + SheetLen("Semifinals")
         THEN i - SheetLen("Quarterfinals")
    ELSE i - SheetLen("Quarterfinals") - SheetLen("Semifinals")

SourceRow(i) == workbook.sheets[SourceSheet(i)][SourceIndex(i)]

LoadSucceeded ==
    /\ LoadRan
    /\ \A m \in Loaded.msgs : m[1] # "error"

\* C8: on a successful load the table has as many rows as the three sheets
\* together, rows come in the order Quarterfinals, Semifinals, Finals, and each
\* row carries the name of its sheet as Stage and the cells of its source row.
C8_ConcatPreservesRows ==
    LoadSucceeded =>
        /\ Len(Loaded.data.rows) =
               SheetLen("Quarterfinals") + SheetLen("Semifinals") + SheetLen("Finals")
        /\ \A i \in 1..Len(Loaded.data.rows) :
               /\ Loaded.data.rows[i]["Stage"] = SourceSheet(i)
               /\ \A c \in workbook.columns \ {"Banned Champions"} :
                      Loaded.data.rows[i][c] = SourceRow(i)[c]

C8_Witness ==
    /\ LoadSucceeded
    /\ pc = "done"
    /\ SheetLen("Quarterfinals") = 1
    /\ SheetLen("Semifinals") = 2
    /\ SheetLen("Finals") = 1
    /\ workbook.sheets["Semifinals"][1]["Team"] # workbook.sheets["Semifinals"][2]["Team"]

\* C5: when the file is absent load_data gives an empty table and an error, the
\* run stops right after the load, and nothing of the filters or the views is
\* ever computed or drawn, on the first run and on every rerun.
C5_MissingFileHalts ==
    (~fileExists /\ pc # "load") =>
        /\ df = EmptyDataFrame
        /\ pc = "stopped"
        /\ messages = {LoadError("Excel file not found"), LoadError("Data failed to load")}
        /\ rendered = {}
        /\ exception = "none"
        /\ filtered_df = EmptyDataFrame
        /\ filtered_team_df = EmptyDataFrame
        /\ team_filter = ""
        /\ player_stats = <<>>
        /\ merged = NoTable
        /\ match_summary = NoTable
        /\ match_winners = NoTable
        /\ champ_wr = NoTable
        /\ team_wr = NoTable
        /\ team_stats = NoTable

C5_Witness == ~fileExists /\ pc = "stopped" /\ interactive

\* C4 (as claimed): with the file there and a sheet missing, a warning names the
\* missing sheet, the sheets that are there are returned, and the run goes on.
C4_MissingSheetWarns ==
    (/\ fileExists
     /\ LoadRan
     /\ \E s \in Range(sheets_to_load) : s \notin DOMAIN workbook.sheets
     /\ \E s \in DOMAIN workbook.sheets : workbook.sheets[s] # <<>>) =>
        /\ \A s \in Range(sheets_to_load) \ DOMAIN workbook.sheets :
               <<"warning", "Sheet not found", s>> \in messages
        /\ Len(df.rows) =
               SheetLen("Quarterfinals") + SheetLen("Semifinals") + SheetLen("Finals")
        /\ ~IsEmpty(df)
        /\ pc # "stopped"

\* The declarative reading of the ban text: the pieces between commas, each cut
\* down to the span from its first to its last non-blank letter, blank pieces left out.
BanText(raw) == IF raw = NaN THEN <<>> ELSE raw

Pieces(x) ==
    {<<p, q>> \in (0..Len(x)) \X (1..(Len(x) + 1)) :
        /\ p < q
        /\ p = 0 \/ x[p] = ","
        /\ q = Len(x) + 1 \/ x[q] = ","
        /\ \A i \in (p + 1)..(q - 1) : x[i] # ","}

NonBlank(x, piece) == {i \in (piece[1] + 1)..(piece[2] - 1) : x[i] # " "}

Trimmed(x, piece) ==
    LET I == NonBlank(x, piece)
        lo == CHOOSE i \in I : \A j \in I : i <= j
        hi == CHOOSE i \in I : \A j \in I : j <= i
    IN SubSeq(x, lo, hi)

ListsEntries(list, x) ==
    LET kept == {piece \in Pieces(x) : NonBlank(x, piece) # {}}
    IN /\ Len(list) = Cardinality(kept)
       /\ \A piece \in kept :
              list[1 + Cardinality({o \in kept : o[1] < piece[1]})] = Trimmed(x, piece)

\* C9: every row's ban list holds the trimmed, non-empty comma-separated entries
\* of its ban text in their order; an empty or missing text gives the empty list;
\* no entry is empty or padded with blanks; "Ahri, Zeri" gives Ahri and Zeri.
C9_BanListParsing ==
    (LoadSucceeded /\ "Banned Champions" \in workbook.columns) =>
        \A i \in 1..Len(Loaded.data.rows) :
            LET raw == SourceRow(i)["Banned Champions"]
                list == Loaded.data.rows[i]["Banned Champions"]
            IN /\ ListsEntries(list, BanText(raw))
               /\ (raw = NaN \/ raw = <<>>) => list = <<>>
               /\ raw = AhriZeri => list = <<<<"A", "h", "r", "i">>, <<"Z", "e", "r", "i">>>>
               /\ \A k \in 1..Len(list) :
                      /\ list[k] # <<>>
                      /\ Head(list[k]) # " "
                      /\ list[k][Len(list[k])] # " "
                      /\ \A j \in 1..Len(list[k]) : list[k][j] # ","

C9_Witness ==
    /\ LoadSucceeded
    /\ pc = "done"
    /\ SourceRow(1)["Banned Champions"] = <<"a", " ", ",", "b">>
    /\ df.rows[1]["Banned Champions"] = <<<<"a">>, <<"b">>>>

----------------------------------------------------------------------------
(* Claims about the win tables (tab4) *)

TeamsOfMatch(rows, k) == {rows[i]["Team"] : i \in MatchRows(rows, k[1], k[2])}

GoldOf(rows, k, t) == SumCol(rows, MatchTeamRows(rows, k[1], k[2], t), "Gold")

RowsOf(rows, k, t) == Cardinality(MatchTeamRows(rows, k[1], k[2], t))

\* Team t's mean gold in match k is greater than / equal to team u's.
MeanGreater(rows, k, t, u) ==
    GoldOf(rows, k, t) * RowsOf(rows, k, u) > GoldOf(rows, k, u) * RowsOf(rows, k, t)

MeanEqual(rows, k, t, u) ==
    GoldOf(rows, k, t) * RowsOf(rows, k, u) = GoldOf(rows, k, u) * RowsOf(rows, k, t)

\* C1: the team whose mean gold in a match is strictly greater than every other
\* team's is the Winning Team on every row of that match, and Won is true on
\* exactly that team's rows.
C1_WinnerByMeanGold ==
    "tab4" \in rendered =>
        /\ Len(df_with_win) = Len(df.rows)
        /\ \A i \in 1..Len(df.rows) :
               /\ df_with_win[i].Stage = df.rows[i]["Stage"]
               /\ df_with_win[i].MatchNo = df.rows[i]["Match No"]
               /\ df_with_win[i].Team = df.rows[i]["Team"]
        /\ \A k \in MatchKeys(df.rows) :
           \A t \in TeamsOfMatch(df.rows, k) :
               (\A u \in TeamsOfMatch(df.rows, k) \ {t} : MeanGreater(df.rows, k, t, u)) =>
                   \A i \in MatchRows(df.rows, k[1], k[2]) :
                       /\ df_with_win[i].WinningTeam = t
                       /\ df_with_win[i].Won = (df.rows[i]["Team"] = t)

\* A match where T1 has the greater mean and BLG the greater total.
C1_Witness ==
    /\ pc = "done"
    /\ "tab4" \in rendered
    /\ \E k \in MatchKeys(df.rows) :
           /\ TeamsOfMatch(df.rows, k) = {"BLG", "T1"}
           /\ MeanGreater(df.rows, k, "T1", "BLG")
           /\ GoldOf(df.rows, k, "BLG") > GoldOf(df.rows, k, "T1")
           /\ \E i \in MatchRows(df.rows, k[1], k[2]) : df_with_win[i].Won
           /\ \E i \in MatchRows(df.rows, k[1], k[2]) : ~df_with_win[i].Won

\* C10: every match has exactly one Winning Team; no team of the match has a
\* greater mean gold, and among the teams that share the greatest mean it is the
\* first by team name, wherever its rows stand in the table.
C10_TieBreakByTeamName ==
    "tab4" \in rendered =>
        /\ \A k \in MatchKeys(df.rows) :
               LET W == {w \in match_winners : w.Stage = k[1] /\ w.MatchNo = k[2]}
               IN /\ Cardinality(W) = 1
                  /\ \A w \in W :
                         /\ w.WinningTeam \in TeamsOfMatch(df.rows, k)
                         /\ \A u \in TeamsOfMatch(df.rows, k) :
                                /\ ~MeanGreater(df.rows, k, u, w.WinningTeam)
                                /\ MeanEqual(df.rows, k, u, w.WinningTeam) =>
                                       TeamRank(w.WinningTeam) <= TeamRank(u)
        /\ \A w \in match_winners : <<w.Stage, w.MatchNo>> \in MatchKeys(df.rows)
        /\ \A i \in 1..Len(df_with_win) : df_with_win[i].WinningTeam \in Teams

\* A tie on the mean with different row counts, T1's row first in the table.
C10_Witness ==
    /\ pc = "done"
    /\ "tab4" \in rendered
    /\ \E k \in MatchKeys(df.rows) :
           /\ TeamsOfMatch(df.rows, k) = {"BLG", "T1"}
           /\ MeanEqual(df.rows, k, "BLG", "T1")
           /\ RowsOf(df.rows, k, "BLG") # RowsOf(df.rows, k, "T1")
           /\ \A i \in MatchRows(df.rows, k[1], k[2]) :
                  /\ df_with_win[i].WinningTeam = "BLG"
                  /\ df.rows[i]["Team"] = "BLG" =>
                         \E j \in MatchRows(df.rows, k[1], k[2]) :
                             j < i /\ df.rows[j]["Team"] = "T1"

Abs(x) == IF x < 0 THEN -x ELSE x

RateRowOk(r, col) ==
    /\ r.Games >= 1
    /\ 0 <= r.Wins /\ r.Wins <= r.Games
    /\ 0 <= r.Rate /\ r.Rate <= 1000
    /\ 2 * Abs(r.Rate * r.Games - 1000 * r.Wins) <= r.Games
    /\ r.Games = Cardinality({i \in 1..Len(df.rows) : df.rows[i][col] = r.Key})
    /\ r.Wins = Cardinality({i \in 1..Len(df_with_win) :
                                 df_with_win[i][col] = r.Key /\ df_with_win[i].Won})
    /\ r.Wins = 0 => r.Rate = 0

RateTableOk(table, col) ==
    /\ \A r \in table : RateRowOk(r, col)
    /\ \A i \in 1..Len(df.rows) :
           Cardinality({r \in table : r.Key = df.rows[i][col]}) = 1

\* C7: in both win-rate tables Games >= 1, 0 <= Wins <= Games, the rate is
\* Wins / Games * 100 rounded to one decimal (in tenths: the integer nearest to
\* 1000 * Wins / Games) and lies in [0, 100]; no winning rows means Wins 0, rate 0.
C7_WinRateBounds ==
    "tab4" \in rendered =>
        /\ RateTableOk(champ_wr, "Champion")
        /\ RateTableOk(team_wr, "Team")

C7_Witness ==
    /\ pc = "done"
    /\ \E r \in champ_wr : r.Games = 3 /\ r.Wins = 2 /\ r.Rate = 667
    /\ \E r \in champ_wr : r.Wins = 0 /\ r.Rate = 0
    /\ \E r \in team_wr : r.Wins = 0 /\ r.Rate = 0

----------------------------------------------------------------------------
(* Claims about pick/ban (tab2) *)

Picked == {df.rows[i]["Champion"] : i \in 1..Len(df.rows)} \ {NaN}

Banned == UNION {Range(df.rows[i]["Banned Champions"]) : i \in 1..Len(df.rows)}

\* Every place <<row, position>> of a ban list.
BanSlots ==
    UNION {{<<i, k>> : k \in 1..Len(df.rows[i]["Banned Champions"])} :
              i \in 1..Len(df.rows)}

\* C6: every champion picked or banned has exactly one row in the merged table,
\* with its number of pick rows and its number of occurrences in ban lists (zero
\* where it has none), and the table holds no other champion.
C6_PickBanJoinTotal ==
    "tab2" \in rendered =>
        /\ \A c \in Picked \cup Banned :
               /\ Cardinality({m \in merged : m.Champion = c}) = 1
               /\ \A m \in merged : m.Champion = c =>
                      /\ m.PickCount =
                             Cardinality({i \in 1..Len(df.rows) : df.rows[i]["Champion"] = c})
                      /\ m.BanCount =
                             Cardinality({ik \in BanSlots :
                                 df.rows[ik[1]]["Banned Champions"][ik[2]] = c})
        /\ \A m \in merged : m.Champion \in Picked \cup Banned

C6_Witness ==
    /\ pc = "done"
    /\ \E m \in merged : m.PickCount = 0 /\ m.BanCount = 2
    /\ \E m \in merged : m.PickCount = 2 /\ m.BanCount = 0

----------------------------------------------------------------------------
(* Claims about the filters and the views *)

FilteredTeams == {filtered_df.rows[i]["Team"] : i \in 1..Len(filtered_df.rows)}

FilteredSum(t, col) ==
    SumCol(filtered_df.rows,
           {i \in 1..Len(filtered_df.rows) : filtered_df.rows[i]["Team"] = t}, col)

\* C2 (as claimed): the team view's sums are the sums over the rows of the
\* selected stages; rows of other stages do not contribute.
C2_TeamSumsOverFiltered ==
    (pc = "done" /\ "tab5" \in rendered) =>
        /\ \A r \in team_stats : r.Team \in FilteredTeams
        /\ \A t \in FilteredTeams :
           \E r \in team_stats :
               /\ r.Team = t
               /\ r.Kills_sum = FilteredSum(t, "Kills")
               /\ r.Deaths_sum = FilteredSum(t, "Deaths")
               /\ r.Assists_sum = FilteredSum(t, "Assists")
               /\ r.Gold_sum = FilteredSum(t, "Gold")
               /\ r.CS_sum = FilteredSum(t, "CS")

Views == {"tab1", "tab2", "tab3", "tab4", "tab5"}

\* The columns each view reads.
ViewColumns(v) ==
    CASE v = "tab1" -> {"Team", "Player IGN"} \cup Tab1Columns
      [] v = "tab2" -> {"Champion", "Banned Champions"}
      [] v = "tab3" -> necessary_cols
      [] v = "tab4" -> {"Stage", "Match No", "Team", "Gold", "Champion"}
      [] v = "tab5" -> stats_cols

RunEnded == pc \in {"done", "stopped", "crashed"}

\* C3 (as claimed): a view with a column missing reports an error and is skipped,
\* no exception is raised, and every view whose columns are there is drawn.
C3_PerViewIsolation ==
    (RunEnded /\ LoadSucceeded /\ ~IsEmpty(df)) =>
        /\ exception = "none"
        /\ \A v \in Views :
               IF ViewColumns(v) \subseteq df.columns
               THEN v \in rendered \/ (v = "tab1" /\ filtered_team_df.rows = <<>>)
               ELSE v \notin rendered /\ \E m \in messages : m[1] = "error"

====
